---------------------------- MODULE Spec2Model ----------------------------
(***************************************************************************)
(* A model of the Ably Terraform generator (src/index.ts).                 *)
(*                                                                         *)
(* Strings are sequences of UTF-16 code units; a code unit is a one-letter *)
(* TLA+ string, or "U+xxxx" for a code unit outside ASCII.  Generated text *)
(* is a sequence of blocks; a block is a record of the pieces its template *)
(* literal interpolates (type, label, fields), each piece a sequence of    *)
(* code units mixed with the literal chunks of the template.               *)
(*                                                                         *)
(* src/index.ts holds two definitions of class AblyTerraformGenerator      *)
(* (lines 52-463 and 516-734).  The variable build says which one runs.    *)
(***************************************************************************)
EXTENDS Integers, Sequences, FiniteSets, TLC

VARIABLES
  build,       \* 1: the class of lines 52-463, 2: the class of lines 516-734
  pc,          \* the await run() is suspended at, or "start" / "done"
  accountId,   \* this.accountId ("" until GET /me answered)
  apps,        \* const apps of run()
  answers,     \* answers.proceed of run(): "unset" until the prompt returned
  i,           \* index in apps of the application the for loop is at
  terraform,   \* let terraform of generateTerraformForApp
  dirExists,   \* whether the output directory exists
  files,       \* the output directory: file name -> content
  written,     \* history: the completed writes, [app, fileName, content], in order
  inflight,    \* external calls started and not yet returned
  calls,       \* history: the external calls in the order they were started
  log,         \* console output, in order
  got,         \* per application, the lists its fetches returned (const keys, ...)
  arg,         \* input of the function under test (unit specifications)
  res          \* its result

vars == <<build, pc, accountId, apps, answers, i, terraform, dirExists, files, written,
          inflight, calls, log, got, arg, res>>

-----------------------------------------------------------------------------
(* Bounds *)

MaxApps == 2          \* applications listed by the account
MaxResources == 2     \* child resources returned over one run
MaxLen == 3           \* length of the names the unit specification draws

-----------------------------------------------------------------------------
(* Code units and strings *)

Upper == <<"A","B","C","D","E","F","G","H","I","J","K","L","M",
           "N","O","P","Q","R","S","T","U","V","W","X","Y","Z">>
Lower == <<"a","b","c","d","e","f","g","h","i","j","k","l","m",
           "n","o","p","q","r","s","t","u","v","w","x","y","z">>
Digits == <<"0","1","2","3","4","5","6","7","8","9">>

Range(s) == { s[k] : k \in DOMAIN s }

\* The character class [a-z0-9_] of sanitizeName's regular expression.
SafeChars == Range(Lower) \cup Range(Digits) \cup {"_"}

UpperChars == Range(Upper)
LowerOf == [ c \in UpperChars |-> Lower[CHOOSE k \in DOMAIN Upper : Upper[k] = c] ]

\* String.prototype.toLowerCase on one code unit.  U+0130 (capital I with
\* dot above) lowercases to the two code units U+0069 U+0307; U+00C9 to U+00E9.
toLowerCaseUnit(c) ==
  IF c \in UpperChars THEN << LowerOf[c] >>
  ELSE IF c = "U+0130" THEN << "i", "U+0307" >>
  ELSE IF c = "U+00C9" THEN << "U+00E9" >>
  ELSE << c >>

RECURSIVE toLowerCase(_)
toLowerCase(s) ==
  IF s = << >> THEN << >> ELSE toLowerCaseUnit(Head(s)) \o toLowerCase(Tail(s))

\* s.replace(/[^a-z0-9_]/g, '_'): every code unit outside the class becomes "_".
replaceUnsafe(s) == [ k \in DOMAIN s |-> IF s[k] \in SafeChars THEN s[k] ELSE "_" ]

\* A plausible slip: the class also admits uppercase letters and "-".
sanitizeNameKeepCase(name) ==
  [ k \in DOMAIN name |->
      IF name[k] \in SafeChars \cup UpperChars \cup {"-"} THEN name[k] ELSE "_" ]

sanitizeName(name) == replaceUnsafe(toLowerCase(name))

\* s.replace(/"/g, '\\"'): a backslash is put before every double quote.
RECURSIVE escapeQuotes(_)
escapeQuotes(s) ==
  IF s = << >> THEN << >>
  ELSE (IF Head(s) = "\"" THEN << "\\", "\"" >> ELSE << Head(s) >>)
         \o escapeQuotes(Tail(s))

-----------------------------------------------------------------------------
(* JavaScript values: the untyped data of the API (rule.target, the nullable *)
(* namespace fields, key.capability) *)

Undefined == [t |-> "undefined"]
Null == [t |-> "null"]
Bool(b) == [t |-> "boolean", v |-> b]
Num(n) == [t |-> "number", v |-> n]
Str(s) == [t |-> "string", v |-> s]
Arr(a) == [t |-> "array", v |-> a]
\* An object is the sequence of its <<key, value>> properties, in insertion order;
\* a key is one chunk.
Obj(o) == [t |-> "object", v |-> o]

\* A TypeError: a property read on undefined or null.
Thrown == [t |-> "thrown"]

\* x.key
Get(x, key) ==
  IF x.t \in {"undefined", "null", "thrown"} THEN Thrown
  ELSE IF x.t = "object" /\ \E k \in DOMAIN x.v : x.v[k][1] = key
    THEN x.v[CHOOSE k \in DOMAIN x.v : x.v[k][1] = key][2]
  ELSE Undefined

\* ToBoolean
Truthy(x) ==
  CASE x.t \in {"undefined", "null"} -> FALSE
    [] x.t = "boolean" -> x.v
    [] x.t = "number" -> x.v # 0
    [] x.t = "string" -> x.v # << >>
    [] OTHER -> TRUE

\* a slip: the value rendered as it is, without a default
OrElseNothing(a, b) == a

\* a || b
OrElse(a, b) == IF a.t = "thrown" THEN Thrown ELSE IF Truthy(a) THEN a ELSE b

RECURSIVE NatDigits(_)
NatDigits(n) ==
  IF n < 10 THEN << Digits[n + 1] >> ELSE NatDigits(n \div 10) \o << Digits[(n % 10) + 1] >>

NumberToString(n) == IF n < 0 THEN << "-" >> \o NatDigits(0 - n) ELSE NatDigits(n)

\* jsToString, as a template literal applies it to ${x}.
RECURSIVE jsToString(_)
RECURSIVE JoinComma(_)
JoinComma(a) ==
  IF a = << >> THEN << >>
  ELSE (IF Head(a).t \in {"undefined", "null"} THEN << >> ELSE jsToString(Head(a)))
         \o (IF Len(a) > 1 THEN << "," >> ELSE << >>) \o JoinComma(Tail(a))
jsToString(x) ==
  CASE x.t = "undefined" -> << "undefined" >>
    [] x.t = "null" -> << "null" >>
    [] x.t = "boolean" -> IF x.v THEN << "true" >> ELSE << "false" >>
    [] x.t = "number" -> NumberToString(x.v)
    [] x.t = "string" -> x.v
    [] x.t = "array" -> JoinComma(x.v)
    [] x.t = "object" -> << "[object Object]" >>

\* The quoting JSON.stringify gives a string: " and \ get a backslash.
RECURSIVE jsonEscape(_)
jsonEscape(s) ==
  IF s = << >> THEN << >>
  ELSE (IF Head(s) \in {"\"", "\\"} THEN << "\\", Head(s) >> ELSE << Head(s) >>)
         \o jsonEscape(Tail(s))

jsonQuote(s) == << "\"" >> \o jsonEscape(s) \o << "\"" >>

Spaces(n) == [ k \in 1..n |-> " " ]

\* JSON.stringify(x, null, indent) at nesting depth d, for x not undefined;
\* indent = 0 is JSON.stringify(x).
RECURSIVE jsonValue(_, _, _)
RECURSIVE jsonElements(_, _, _)
RECURSIVE jsonProperties(_, _, _)
jsonBreak(indent, d) == IF indent = 0 THEN << >> ELSE << "\n" >> \o Spaces(indent * d)
jsonElements(a, indent, d) ==
  IF a = << >> THEN << >>
  ELSE jsonBreak(indent, d)
         \o (IF Head(a).t = "undefined" THEN << "null" >> ELSE jsonValue(Head(a), indent, d))
         \o (IF Len(a) > 1 THEN << "," >> ELSE << >>)
         \o jsonElements(Tail(a), indent, d)
jsonProperties(o, indent, d) ==
  IF o = << >> THEN << >>
  ELSE jsonBreak(indent, d)
         \o jsonQuote(<< Head(o)[1] >>) \o << ":" >> \o (IF indent = 0 THEN << >> ELSE << " " >>)
         \o jsonValue(Head(o)[2], indent, d)
         \o (IF Len(o) > 1 THEN << "," >> ELSE << >>)
         \o jsonProperties(Tail(o), indent, d)
jsonValue(x, indent, d) ==
  CASE x.t = "null" -> << "null" >>
    [] x.t = "boolean" -> IF x.v THEN << "true" >> ELSE << "false" >>
    [] x.t = "number" -> NumberToString(x.v)
    [] x.t = "string" -> jsonQuote(x.v)
    [] x.t = "array" ->
         IF x.v = << >> THEN << "[]" >>
         ELSE << "[" >> \o jsonElements(x.v, indent, d + 1) \o jsonBreak(indent, d) \o << "]" >>
    [] x.t = "object" ->
         LET own == SelectSeq(x.v, LAMBDA p : p[2].t # "undefined")
         IN IF own = << >> THEN << "{}" >>
            ELSE << "{" >> \o jsonProperties(own, indent, d + 1) \o jsonBreak(indent, d) \o << "}" >>

\* `${JSON.stringify(x)}`: JSON.stringify(undefined) is undefined.
JSONstringify(x) ==
  IF x.t = "thrown" THEN Thrown
  ELSE IF x.t = "undefined" THEN Str(<< "undefined" >>) ELSE Str(jsonValue(x, 0, 0))

\* `${JSON.stringify(x, null, 2)}`
JSONstringify2(x) ==
  IF x.t = "thrown" THEN Thrown
  ELSE IF x.t = "undefined" THEN Str(<< "undefined" >>) ELSE Str(jsonValue(x, 2, 0))

-----------------------------------------------------------------------------
(* Generated text.  A block is `resource "<type>" "<label>" { <fields> }`;   *)
(* a field is one line of the template: a quoted literal, a bare expression, *)
(* or the opening / closing line of a nested block.                          *)

Block(type, label, fields) == [type |-> type, label |-> label, fields |-> fields]

Quoted(name, text) == [name |-> name, kind |-> "quoted", text |-> text]
Bare(name, text) == [name |-> name, kind |-> "bare", text |-> text]
Open(name) == [name |-> name, kind |-> "open", text |-> << >>]       \* name {
OpenMap(name) == [name |-> name, kind |-> "openmap", text |-> << >>] \* name = {
Close == [name |-> "}", kind |-> "close", text |-> << >>]
ThrownField(name) == [name |-> name, kind |-> "thrown", text |-> << >>]

\* "${x}" and ${x} for an untyped x
QuotedV(name, x) == IF x.t = "thrown" THEN ThrownField(name) ELSE Quoted(name, jsToString(x))
BareV(name, x) == IF x.t = "thrown" THEN ThrownField(name) ELSE Bare(name, jsToString(x))

\* A template literal whose interpolation threw yields no string.
Fields(fs) ==
  IF \E k \in DOMAIN fs : fs[k].kind = "thrown" THEN Thrown ELSE [t |-> "fields", v |-> fs]

BoolStr(b) == IF b THEN << "true" >> ELSE << "false" >>

\* ably_app.${sanitizedAppName}.id
AppRef(sanitizedAppName) == << "ably_app." >> \o sanitizedAppName \o << ".id" >>

\* a slip: the entity's name left out of the identifier
LabelAppOnly(sanitizedAppName, sanitizedName) == sanitizedAppName

\* ${sanitizedAppName}_${sanitizedName}
Label(sanitizedAppName, sanitizedName) == sanitizedAppName \o << "_" >> \o sanitizedName

generateAppTerraform(app) ==
  LET sanitizedName == sanitizeName(app.name)
  IN << Block(<< "ably_app" >>, sanitizedName,
              << Quoted("name", escapeQuotes(app.name)) >>) >>

\* a slip: the reference built from the raw application name
generateKeyTerraformRawRef(key, appName) ==
  << Block(<< "ably_api_key" >>, Label(sanitizeName(appName), sanitizeName(key.name)),
           << Bare("app_id", AppRef(appName)),
              Quoted("name", escapeQuotes(key.name)),
              Bare("capability", << "jsonencode(" >> \o JSONstringify(key.capability).v \o << ")" >>),
              Bare("revocable_tokens", << "false" >>) >>) >>

generateKeyTerraform(key, appName) ==
  LET sanitizedKeyName == sanitizeName(key.name)
      sanitizedAppName == sanitizeName(appName)
      capability == JSONstringify(key.capability)
  IN << Block(<< "ably_api_key" >>, Label(sanitizedAppName, sanitizedKeyName),
              << Bare("app_id", AppRef(sanitizedAppName)),
                 Quoted("name", escapeQuotes(key.name)),
                 Bare("capability", << "jsonencode(" >> \o capability.v \o << ")" >>),
                 Bare("revocable_tokens", << "false" >>) >>) >>

\* the second definition (no revocable_tokens line)
generateKeyTerraform_2(key, appName) ==
  LET sanitizedKeyName == sanitizeName(key.name)
      sanitizedAppName == sanitizeName(appName)
      capability == JSONstringify(key.capability)
  IN << Block(<< "ably_api_key" >>, Label(sanitizedAppName, sanitizedKeyName),
              << Bare("app_id", AppRef(sanitizedAppName)),
                 Quoted("name", escapeQuotes(key.name)),
                 Bare("capability", << "jsonencode(" >> \o capability.v \o << ")" >>) >>) >>

generateNamespaceTerraform(namespace, appName) ==
  LET sanitizedNamespaceName == sanitizeName(namespace.id)
      sanitizedAppName == sanitizeName(appName)
  IN << Block(<< "ably_namespace" >>, Label(sanitizedAppName, sanitizedNamespaceName),
              << Bare("app_id", AppRef(sanitizedAppName)),
                 Quoted("id", namespace.id),
                 Bare("authenticated", BoolStr(namespace.authenticated)),
                 Bare("persisted", BoolStr(namespace.persisted)),
                 Bare("persist_last", BoolStr(namespace.persistLast)),
                 Bare("push_enabled", BoolStr(namespace.pushEnabled)),
                 Bare("tls_only", BoolStr(namespace.tlsOnly)),
                 BareV("batching_enabled", OrElse(namespace.batchingEnabled, Bool(FALSE))),
                 BareV("batching_interval",
                       OrElse(namespace.batchingInterval, Str(<< "null" >>))),
                 QuotedV("batching_policy",
                         OrElse(namespace.batchingPolicy, Str(<< >>))) >>) >>

\* the second definition (no batching lines)
generateNamespaceTerraform_2(namespace, appName) ==
  LET sanitizedNamespaceName == sanitizeName(namespace.id)
      sanitizedAppName == sanitizeName(appName)
  IN << Block(<< "ably_namespace" >>, Label(sanitizedAppName, sanitizedNamespaceName),
              << Bare("app_id", AppRef(sanitizedAppName)),
                 Quoted("id", namespace.id),
                 Bare("authenticated", BoolStr(namespace.authenticated)),
                 Bare("persisted", BoolStr(namespace.persisted)),
                 Bare("persist_last", BoolStr(namespace.persistLast)),
                 Bare("push_enabled", BoolStr(namespace.pushEnabled)),
                 Bare("tls_only", BoolStr(namespace.tlsOnly)) >>) >>

generateQueueTerraform(queue, appName) ==
  LET sanitizedQueueName == sanitizeName(queue.name)
      sanitizedAppName == sanitizeName(appName)
  IN << Block(<< "ably_queue" >>, Label(sanitizedAppName, sanitizedQueueName),
              << Bare("app_id", AppRef(sanitizedAppName)),
                 Quoted("name", escapeQuotes(queue.name)),
                 Bare("ttl", NumberToString(queue.ttl)),
                 Bare("max_length", NumberToString(queue.maxLength)),
                 Quoted("region", queue.region) >>) >>

-----------------------------------------------------------------------------
(* Rule field projectors: target is untyped (target: any) *)

Empty == Str(<< >>)
False == Bool(FALSE)

\* the authentication sub-block of the three AWS projectors
awsAuthentication(target) ==
  LET authentication == Get(target, "authentication")
  IN << Open("authentication"),
        QuotedV("authentication_mode", Get(authentication, "authenticationMode")),
        QuotedV("access_key_id", OrElse(Get(authentication, "accessKeyId"), Empty)),
        QuotedV("secret_access_key", OrElse(Get(authentication, "secretAccessKey"), Empty)),
        QuotedV("assume_role_arn", OrElse(Get(authentication, "assumeRoleArn"), Empty)),
        Close >>

generateHttpRuleFields(target) ==
  Fields(<< Open("target"),
            QuotedV("url", Get(target, "url")),
            QuotedV("format", Get(target, "format")),
            BareV("headers", JSONstringify(Get(target, "headers"))),
            QuotedV("signing_key_id", OrElse(Get(target, "signingKeyId"), Empty)),
            BareV("enveloped", OrElse(Get(target, "enveloped"), False)),
            Close >>)

generateAmqpRuleFields(target) ==
  Fields(<< Open("target"),
            QuotedV("queue_id", Get(target, "queueId")),
            QuotedV("format", Get(target, "format")),
            BareV("enveloped", OrElse(Get(target, "enveloped"), False)),
            Close >>)

generateAmqpExternalRuleFields(target) ==
  Fields(<< Open("target"),
            QuotedV("url", Get(target, "url")),
            QuotedV("routing_key", Get(target, "routingKey")),
            BareV("mandatory_route", Get(target, "mandatoryRoute")),
            BareV("persistent_messages", Get(target, "persistentMessages")),
            BareV("message_ttl", OrElse(Get(target, "messageTtl"), Str(<< "null" >>))),
            QuotedV("format", Get(target, "format")),
            BareV("headers", JSONstringify(Get(target, "headers"))),
            BareV("enveloped", OrElse(Get(target, "enveloped"), False)),
            Close >>)

generateAwsKinesisRuleFields(target) ==
  Fields(<< Open("target"),
            QuotedV("region", Get(target, "region")),
            QuotedV("stream_name", Get(target, "streamName")),
            QuotedV("partition_key", Get(target, "partitionKey")),
            QuotedV("format", Get(target, "format")),
            BareV("enveloped", OrElse(Get(target, "enveloped"), False)) >>
         \o awsAuthentication(target) \o << Close >>)

generateAwsLambdaRuleFields(target) ==
  Fields(<< Open("target"),
            QuotedV("region", Get(target, "region")),
            QuotedV("function_name", Get(target, "functionName")),
            QuotedV("format", Get(target, "format")),
            BareV("enveloped", OrElse(Get(target, "enveloped"), False)) >>
         \o awsAuthentication(target) \o << Close >>)

generateAwsSqsRuleFields(target) ==
  Fields(<< Open("target"),
            QuotedV("region", Get(target, "region")),
            QuotedV("aws_account_id", Get(target, "awsAccountId")),
            QuotedV("queue_name", Get(target, "queueName")),
            QuotedV("format", Get(target, "format")),
            BareV("enveloped", OrElse(Get(target, "enveloped"), False)) >>
         \o awsAuthentication(target) \o << Close >>)

generateAzureFunctionRuleFields(target) ==
  Fields(<< Open("target"),
            QuotedV("azure_app_id", Get(target, "azureAppId")),
            QuotedV("function_name", Get(target, "functionName")),
            QuotedV("format", Get(target, "format")),
            BareV("headers", JSONstringify(Get(target, "headers"))),
            QuotedV("signing_key_id", OrElse(Get(target, "signingKeyId"), Empty)),
            BareV("enveloped", OrElse(Get(target, "enveloped"), False)),
            Close >>)

generateGoogleFunctionRuleFields(target) ==
  Fields(<< Open("target"),
            QuotedV("region", Get(target, "region")),
            QuotedV("project_id", Get(target, "projectId")),
            QuotedV("function_name", Get(target, "functionName")),
            QuotedV("format", Get(target, "format")),
            BareV("headers", JSONstringify(Get(target, "headers"))),
            QuotedV("signing_key_id", OrElse(Get(target, "signingKeyId"), Empty)),
            BareV("enveloped", OrElse(Get(target, "enveloped"), False)),
            Close >>)

generateKafkaRuleFields(target) ==
  LET sasl == Get(Get(target, "auth"), "sasl")
  IN Fields(<< Open("target"),
               BareV("brokers", JSONstringify(Get(target, "brokers"))),
               QuotedV("routing_key", Get(target, "routingKey")),
               QuotedV("format", Get(target, "format")),
               BareV("enveloped", OrElse(Get(target, "enveloped"), False)),
               Open("auth"),
               Open("sasl"),
               QuotedV("mechanism", Get(sasl, "mechanism")),
               QuotedV("username", Get(sasl, "username")),
               QuotedV("password", Get(sasl, "password")),
               Close,
               Close,
               Close >>)

generatePulsarRuleFields(target) ==
  LET authentication == Get(target, "authentication")
  IN Fields(<< Open("target"),
               QuotedV("routing_key", Get(target, "routingKey")),
               QuotedV("topic", Get(target, "topic")),
               QuotedV("service_url", Get(target, "serviceUrl")),
               BareV("tls_trust_certs", JSONstringify(Get(target, "tlsTrustCerts"))),
               QuotedV("format", Get(target, "format")),
               BareV("enveloped", OrElse(Get(target, "enveloped"), False)),
               Open("authentication"),
               QuotedV("mode", Get(authentication, "mode")),
               QuotedV("token", Get(authentication, "token")),
               Close,
               Close >>)

generateZapierRuleFields(target) ==
  Fields(<< Open("target"),
            QuotedV("url", Get(target, "url")),
            BareV("headers", JSONstringify(Get(target, "headers"))),
            QuotedV("signing_key_id", OrElse(Get(target, "signingKeyId"), Empty)),
            Close >>)

-----------------------------------------------------------------------------
(* The rule emitter.  A rule type is a sequence of chunks, "/" a chunk of    *)
(* its own.  The result is [out, log, thrown]: the text returned, the        *)
(* console lines written, and whether a TypeError was thrown instead.        *)

RT_http == << "http" >>
RT_amqp == << "amqp" >>
RT_amqp_external == << "amqp", "/", "external" >>
RT_aws_kinesis == << "aws", "/", "kinesis" >>
RT_aws_lambda == << "aws", "/", "lambda" >>
RT_aws_sqs == << "aws", "/", "sqs" >>
RT_azure_function == << "azure", "/", "function" >>
RT_google_function == << "google", "/", "function" >>
RT_kafka == << "kafka" >>
RT_pulsar == << "pulsar" >>
RT_zapier == << "zapier" >>

KnownRuleTypes ==
  { RT_http, RT_amqp, RT_amqp_external, RT_aws_kinesis, RT_aws_lambda, RT_aws_sqs,
    RT_azure_function, RT_google_function, RT_kafka, RT_pulsar, RT_zapier }

\* the switch of generateRuleTerraform
ruleSpecificFields(rule) ==
  CASE rule.ruleType = RT_http -> generateHttpRuleFields(rule.target)
    [] rule.ruleType = RT_amqp -> generateAmqpRuleFields(rule.target)
    [] rule.ruleType = RT_amqp_external -> generateAmqpExternalRuleFields(rule.target)
    [] rule.ruleType = RT_aws_kinesis -> generateAwsKinesisRuleFields(rule.target)
    [] rule.ruleType = RT_aws_lambda -> generateAwsLambdaRuleFields(rule.target)
    [] rule.ruleType = RT_aws_sqs -> generateAwsSqsRuleFields(rule.target)
    [] rule.ruleType = RT_azure_function -> generateAzureFunctionRuleFields(rule.target)
    [] rule.ruleType = RT_google_function -> generateGoogleFunctionRuleFields(rule.target)
    [] rule.ruleType = RT_kafka -> generateKafkaRuleFields(rule.target)
    [] rule.ruleType = RT_pulsar -> generatePulsarRuleFields(rule.target)
    [] rule.ruleType = RT_zapier -> generateZapierRuleFields(rule.target)
    [] OTHER -> [t |-> "default"]

Warn(what, detail) == [level |-> "warn", msg |-> what, detail |-> detail]
LogLine(what, detail) == [level |-> "log", msg |-> what, detail |-> detail]
ErrorLine(what, detail) == [level |-> "error", msg |-> what, detail |-> detail]

\* the return statements of generateRuleTerraform, given what the switch gave
ruleTemplate(rule, sanitizedAppName, sanitizedRuleName, specific) ==
  IF specific.t = "default"
    THEN [out |-> << >>, log |-> << Warn("Unsupported rule type", rule.ruleType) >>,
          thrown |-> FALSE]
  ELSE IF specific.t = "thrown"
    THEN [out |-> << >>, log |-> << >>, thrown |-> TRUE]
  ELSE [out |-> << Block(<< "ably_rule" >>, Label(sanitizedAppName, sanitizedRuleName),
                         << Bare("app_id", AppRef(sanitizedAppName)),
                            Quoted("status", rule.status),
                            Quoted("rule_type", rule.ruleType),
                            Quoted("request_mode", rule.requestMode),
                            Open("source"),
                            Quoted("channel_filter", escapeQuotes(rule.source.channelFilter)),
                            Quoted("type", rule.source.type),
                            Close >>
                         \o specific.v) >>,
        log |-> << >>, thrown |-> FALSE]

generateRuleTerraform(rule, appName) ==
  ruleTemplate(rule, sanitizeName(appName), sanitizeName(rule.id), ruleSpecificFields(rule))

\* s.replace('/', '_'): the first "/" only
RECURSIVE replaceFirstSlash(_)
replaceFirstSlash(s) ==
  IF s = << >> THEN << >>
  ELSE IF Head(s) = "/" THEN << "_" >> \o Tail(s)
  ELSE << Head(s) >> \o replaceFirstSlash(Tail(s))

\* the second definition: no switch, the target as JSON
generateRuleTerraform_2(rule, appName) ==
  LET sanitizedRuleName == sanitizeName(rule.id)
      sanitizedAppName == sanitizeName(appName)
      target == JSONstringify2(rule.target)
  IN [out |-> << Block(<< "ably_rule_" >> \o replaceFirstSlash(rule.ruleType),
                       Label(sanitizedAppName, sanitizedRuleName),
                       << Bare("app_id", AppRef(sanitizedAppName)),
                          Quoted("status", rule.status),
                          Quoted("request_mode", rule.requestMode),
                          OpenMap("source"),
                          Quoted("channel_filter", escapeQuotes(rule.source.channelFilter)),
                          Quoted("type", rule.source.type),
                          Close,
                          Bare("target", << "jsonencode(" >> \o target.v \o << ")" >>) >>) >>,
      log |-> << >>, thrown |-> FALSE]

-----------------------------------------------------------------------------
(* The data the API can return.  A string that sanitizeName reads is written *)
(* one code unit at a time; the others may be written in chunks.             *)

S_MyApp == << "M", "y", " ", "A", "p", "p" >>
S_my_app == << "m", "y", "_", "a", "p", "p" >>
S_quoted == << "a", "\"", "b" >>
S_ProdKey == << "P", "r", "o", "d", " ", "K", "e", "y" >>
S_prod_key == << "p", "r", "o", "d", "-", "k", "e", "y" >>

AppNamePool == << S_MyApp, S_my_app, S_quoted >>

Capability == Obj(<< << "chat:*", Arr(<< Str(<< "subscribe" >>) >>) >> >>)

KeyPool ==
  << [id |-> << "k1" >>, name |-> S_ProdKey, key |-> << "secret1" >>, capability |-> Capability],
    [id |-> << "k2" >>, name |-> S_prod_key, key |-> << "secret2" >>, capability |-> Capability] >>

NamespacePool ==
  << [id |-> << "c", "h", "a", "t" >>, authenticated |-> FALSE, persisted |-> TRUE, persistLast |-> FALSE,
     pushEnabled |-> FALSE, tlsOnly |-> TRUE,
     batchingPolicy |-> Null, batchingInterval |-> Null, batchingEnabled |-> Null],
    [id |-> << "n", "\"", "s" >>, authenticated |-> TRUE, persisted |-> FALSE,
     persistLast |-> FALSE, pushEnabled |-> TRUE, tlsOnly |-> FALSE,
     batchingPolicy |-> Str(<< "simple" >>), batchingInterval |-> Num(20),
     batchingEnabled |-> Bool(TRUE)] >>

QueuePool ==
  << [id |-> << "q1" >>, name |-> << "j", "o", "b", "s" >>, ttl |-> 60, maxLength |-> 10000,
     region |-> << "us-east-1-a" >>],
    [id |-> << "q2" >>, name |-> << "j", "\"", "q" >>, ttl |-> 0, maxLength |-> 1,
     region |-> << "eu", "\"", "w" >>] >>

Headers == Arr(<< Obj(<< << "name", Str(<< "X-Id" >>) >>,
                         << "value", Str(<< "1" >>) >> >>) >>)

R_http ==
  [id |-> << "r", "1" >>, status |-> << "enabled" >>, requestMode |-> << "single" >>,
   ruleType |-> RT_http,
   source |-> [channelFilter |-> << "^", "\"", "c" >>, type |-> << "channel.message" >>],
   target |-> Obj(<< << "url", Str(<< "https://example.com/", "\"", "x" >>) >>,
                     << "format", Str(<< "json" >>) >>,
                     << "headers", Headers >>,
                     << "signingKeyId", Str(<< "k1" >>) >>,
                     << "enveloped", Bool(TRUE) >> >>)]

R_unknown ==
  [id |-> << "r", "-", "1" >>, status |-> << "enabled" >>, requestMode |-> << "single" >>,
   ruleType |-> << "unknown", "/", "custom" >>,
   source |-> [channelFilter |-> << >>, type |-> << "channel.message" >>],
   target |-> Obj(<< << "url", Str(<< "https://example.com" >>) >> >>)]

R_amqp ==
  [id |-> << "r", "3" >>, status |-> << "disabled" >>, requestMode |-> << "batch" >>,
   ruleType |-> RT_amqp,
   source |-> [channelFilter |-> << "chat" >>, type |-> << "channel.presence" >>],
   target |-> Obj(<< << "queueId", Str(<< "q1" >>) >>,
                     << "format", Str(<< "json" >>) >> >>)]

\* an aws/sqs target the API returned without its authentication object
R_sqs_bare ==
  [id |-> << "r", "4" >>, status |-> << "enabled" >>, requestMode |-> << "single" >>,
   ruleType |-> RT_aws_sqs,
   source |-> [channelFilter |-> << >>, type |-> << "channel.message" >>],
   target |-> Obj(<< << "region", Str(<< "us-east-1" >>) >>,
                     << "awsAccountId", Str(<< "123" >>) >>,
                     << "queueName", Str(<< "q" >>) >>,
                     << "format", Str(<< "json" >>) >> >>)]

RulePool == << R_http, R_unknown, R_amqp, R_sqs_bare >>

\* the lists the API can return from pool: at most n of its members, in the
\* order of the pool
RECURSIVE ListsOf(_, _)
ListsOf(pool, n) ==
  IF n = 0 \/ pool = << >> THEN { << >> }
  ELSE ListsOf(Tail(pool), n)
         \cup { << Head(pool) >> \o rest : rest \in ListsOf(Tail(pool), n - 1) }

AppLists ==
  { [ k \in DOMAIN names |-> [id |-> << "a", Digits[k + 1] >>, name |-> names[k]] ] :
      names \in ListsOf(AppNamePool, MaxApps) }

-----------------------------------------------------------------------------
(* The aggregator and the orchestrator.  run() is suspended at one await at  *)
(* a time (pc); an action is the code from the return of that await to the   *)
(* next await, the synchronous file-system calls included.  The handlers     *)
(* work on st, the record of the program's state.                            *)

FetchOps == { "getKeys", "getNamespaces", "getQueues", "getRules" }

Call(op, app) == [op |-> op, app |-> app]

\* state[name] for a record of the state
St ==
  [pc |-> pc, accountId |-> accountId, apps |-> apps, answers |-> answers, i |-> i,
   terraform |-> terraform,
   dirExists |-> dirExists, files |-> files, written |-> written, inflight |-> inflight,
   calls |-> calls, log |-> log, got |-> got]

Assign(st) ==
  /\ pc' = st.pc
  /\ accountId' = st.accountId
  /\ apps' = st.apps
  /\ answers' = st.answers
  /\ i' = st.i
  /\ terraform' = st.terraform
  /\ dirExists' = st.dirExists
  /\ files' = st.files
  /\ written' = st.written
  /\ inflight' = st.inflight
  /\ calls' = st.calls
  /\ log' = st.log
  /\ got' = st.got
  /\ UNCHANGED << build, arg, res >>

\* console.log / console.warn / console.error
Say(st, lines) == [st EXCEPT !.log = @ \o lines]

\* an awaited call starts: run() is suspended until it returns
Await(st, op, app) ==
  [st EXCEPT !.pc = op, !.inflight = @ \cup { Call(op, app) },
             !.calls = Append(@, Call(op, app))]

\* the awaited call returns
Resume(st, op, app) == [st EXCEPT !.inflight = @ \ { Call(op, app) }]

\* a synchronous call (fs.mkdirSync, fs.writeFileSync) starts and returns
Sync(st, op, app) == [st EXCEPT !.calls = Append(@, Call(op, app))]

\* a slip: the new text put in front
prepend(text, more) == more \o text

\* terraform += text
append(text, more) == text \o more

\* the catch of run(): the whole try block, the for loop included, is left.
\* err is "response" (an axios error carrying a response), "network" (an
\* axios error without one) or "other".
runCatch(st, err) ==
  [ Say(st, << ErrorLine("An error occurred", err) >>
            \o (IF err = "response" THEN << ErrorLine("API Error", err) >> ELSE << >>))
    EXCEPT !.pc = "done" ]

\* a slip: the rules fetched before the queues
FetchOrderRulesEarly == << "getKeys", "getNamespaces", "getRules", "getQueues" >>

\* the order of the awaits of generateTerraformForApp
FetchOrder == << "getKeys", "getNamespaces", "getQueues", "getRules" >>

\* keys.forEach(...) and its like: the text the items of one kind add, the
\* console lines written, and whether an emitter threw
joinRule(one, rest) ==
  IF one.thrown THEN one
  ELSE [out |-> append(one.out, rest.out), log |-> one.log \o rest.log,
        thrown |-> rest.thrown]

RECURSIVE forEachRule(_, _)
forEachRule(rules, appName) ==
  IF rules = << >> THEN [out |-> << >>, log |-> << >>, thrown |-> FALSE]
  ELSE joinRule(IF build = 1 THEN generateRuleTerraform(Head(rules), appName)
                ELSE generateRuleTerraform_2(Head(rules), appName),
                forEachRule(Tail(rules), appName))

RECURSIVE forEachItem(_, _, _)
forEachItem(op, items, appName) ==
  IF items = << >> THEN << >>
  ELSE append(
         CASE op = "getKeys" ->
                IF build = 1 THEN generateKeyTerraform(Head(items), appName)
                ELSE generateKeyTerraform_2(Head(items), appName)
           [] op = "getNamespaces" ->
                IF build = 1 THEN generateNamespaceTerraform(Head(items), appName)
                ELSE generateNamespaceTerraform_2(Head(items), appName)
           [] op = "getQueues" -> generateQueueTerraform(Head(items), appName),
         forEachItem(op, Tail(items), appName))

forEach(op, items, appName) ==
  IF op = "getRules" THEN forEachRule(items, appName)
  ELSE [out |-> forEachItem(op, items, appName), log |-> << >>, thrown |-> FALSE]

TF == << ".tf" >>

\* what a write can do: succeed, fail to open the file (nothing changes), or
\* open the file, which empties it, and fail after `kept` blocks at most
\* reached it
WriteOutcomes ==
  { [outcome |-> "ok", kept |-> 0], [outcome |-> "open", kept |-> 0] }
    \cup { [outcome |-> "write", kept |-> n] : n \in 0..MaxResources }

Min(a, b) == IF a < b THEN a ELSE b

\* fs.writeFileSync(path.join(outputDir, fileName), terraform)
writeFileSync(st, fileName, text, how) ==
  LET s1 == Sync(st, "writeFile", st.i)
  IN CASE how.outcome = "ok" ->
            [s1 EXCEPT !.files = (fileName :> text) @@ @,
                       !.written = Append(@, [app |-> st.i, fileName |-> fileName,
                                              content |-> text])]
       [] how.outcome = "write" ->
            [s1 EXCEPT !.files =
               (fileName :> SubSeq(text, 1, Min(how.kept, Len(text) - 1))) @@ @]
       [] OTHER -> s1

\* one turn of `for (const app of apps)` up to its first await, or the end
\* of run() when the list is exhausted
loop(st, j) ==
  IF j > Len(st.apps)
    THEN [ Say(st, << LogLine("Terraform generation complete.", << >>) >>)
           EXCEPT !.pc = "done", !.i = j ]
  ELSE Await([ Say(st, << LogLine("Generating Terraform for app", st.apps[j].name) >>)
               EXCEPT !.i = j, !.terraform = generateAppTerraform(st.apps[j]) ],
             FetchOrder[1], j)

\* a different design: a try inside the loop, which goes on with the next application
throwCaughtPerApp(st, err) ==
  loop(Say(st, << ErrorLine("An error occurred", err) >>), st.i + 1)

\* an exception thrown inside the for loop: the loop has no try of its own,
\* so the exception reaches the catch of run()
throwInLoop(st, err) == runCatch(st, err)

Pool(op) ==
  CASE op = "getKeys" -> KeyPool
    [] op = "getNamespaces" -> NamespacePool
    [] op = "getQueues" -> QueuePool
    [] op = "getRules" -> RulePool

RECURSIVE SumLen(_, _)
SumLen(f, S) ==
  IF S = {} THEN 0
  ELSE LET x == CHOOSE y \in S : TRUE IN Len(f[x]) + SumLen(f, S \ {x})

RECURSIVE Fetched(_, _)
Fetched(g, n) == IF n = 0 THEN 0 ELSE SumLen(g[n], DOMAIN g[n]) + Fetched(g, n - 1)

IndexOf(seq, x) == CHOOSE k \in DOMAIN seq : seq[k] = x

\* const keys = await this.getKeys(app.id), and its like: the call returned items
received(st, op, items) ==
  [Resume(st, op, st.i) EXCEPT !.got[st.i] = (op :> items) @@ @]

\* the forEach ran to its end: its console lines, and terraform += each block
emitted(st, each) == [Say(st, each.log) EXCEPT !.terraform = append(@, each.out)]

\* back in run() after fs.writeFileSync: the next turn of the loop, or the
\* exception of a failed write
afterWrite(st, fileName, how) ==
  IF how.outcome # "ok" THEN throwInLoop(st, "other")
  ELSE loop(Say(st, << LogLine("Generated", fileName) >>), st.i + 1)

\* return terraform; then in run() the file name and the write
returned(st, fileName, how) ==
  afterWrite(writeFileSync(st, fileName, st.terraform, how), fileName, how)

\* a slip: the text returned to run() after the first forEach
proceedAfterKeys(st, k, how) ==
  returned(st, sanitizeName(st.apps[st.i].name) \o TF, how)

\* after the forEach of the k-th fetch: the next await, or the return to run()
proceed(st, k, how) ==
  IF k < Len(FetchOrder) THEN Await(st, FetchOrder[k + 1], st.i)
  ELSE returned(st, sanitizeName(st.apps[st.i].name) \o TF, how)

afterForEach(st, op, how, each) ==
  IF each.thrown THEN throwInLoop(Say(st, each.log), "other")
  ELSE proceed(emitted(st, each), IndexOf(FetchOrder, op), how)

\* the code run when the fetch op of the application at st.i returns items:
\* the forEach, then the next await, or after the last one the return to
\* run(), the write of the file and the next turn of the loop
fetchReturned(st, op, items, how) ==
  afterForEach(received(st, op, items), op, how,
               forEach(op, items, st.apps[st.i].name))

\* if (!fs.existsSync(outputDir)) fs.mkdirSync(outputDir); then the for loop.
\* made: whether mkdirSync succeeds.
intoOutputDir(st, made) ==
  IF st.dirExists THEN loop(st, 1)
  ELSE IF made THEN loop([Sync(st, "mkdir", 0) EXCEPT !.dirExists = TRUE], 1)
  ELSE runCatch(Sync(st, "mkdir", 0), "other")

\* a slip: the answer recorded and not tested
promptedUnchecked(st, proceedAnswer, made) ==
  intoOutputDir([st EXCEPT !.answers = IF proceedAnswer THEN "yes" ELSE "no"], made)

\* the code of run() after the prompt answered
prompted(st, proceedAnswer, made) ==
  IF proceedAnswer THEN intoOutputDir([st EXCEPT !.answers = "yes"], made)
  ELSE [ Say(st, << LogLine("Generation cancelled.", << >>) >>)
         EXCEPT !.pc = "done", !.answers = "no" ]

-----------------------------------------------------------------------------
(* Actions *)

\* generator.run(): getApps() -> getAccountId() -> GET /me
Start ==
  /\ pc = "start"
  /\ Assign(Await(St, "getAccountId", 0))

\* GET /me returned
MeReturn ==
  /\ pc = "getAccountId"
  /\ \E outcome \in { "ok", "response", "network" } :
       LET s1 == Resume(St, "getAccountId", 0)
       IN IF outcome = "ok"
            THEN Assign(Await([s1 EXCEPT !.accountId = << "acct" >>], "getApps", 0))
          ELSE Assign(runCatch(Say(s1, << ErrorLine("Failed to fetch account ID", outcome) >>),
                               "other"))

\* GET /accounts/<id>/apps returned
AppsReturn ==
  /\ pc = "getApps"
  /\ \/ \E err \in { "response", "network" } :
          Assign(runCatch(Resume(St, "getApps", 0), err))
     \/ \E list \in AppLists :
          LET s1 == [Resume(St, "getApps", 0) EXCEPT
                       !.apps = list, !.got = [ j \in 1..Len(list) |-> << >> ]]
          IN IF Len(list) = 0
               THEN Assign([ Say(s1, << LogLine("No apps found for this account.", << >>) >>)
                             EXCEPT !.pc = "done" ])
             ELSE Assign(Await(
                    Say(s1, << LogLine("Found the following apps:", << >>) >>
                            \o [ j \in 1..Len(list) |-> LogLine("app", list[j].name) ]),
                    "prompt", 0))

\* inquirer.prompt returned
PromptReturn ==
  /\ pc = "prompt"
  /\ \/ Assign(runCatch(Resume(St, "prompt", 0), "other"))
     \/ \E proceedAnswer \in BOOLEAN, made \in BOOLEAN :
          Assign(prompted(Resume(St, "prompt", 0), proceedAnswer, made))

FetchReturn(op) ==
  /\ pc = op
  /\ \/ \E err \in { "response", "network" } :
          Assign(throwInLoop(Resume(St, op, i), err))
     \/ \E items \in ListsOf(Pool(op), MaxResources - Fetched(got, Len(got))) :
          \E how \in IF op = FetchOrder[Len(FetchOrder)] THEN WriteOutcomes
                     ELSE { [outcome |-> "ok", kept |-> 0] } :
            Assign(fetchReturned(St, op, items, how))

KeysReturn == FetchReturn("getKeys")
NamespacesReturn == FetchReturn("getNamespaces")
QueuesReturn == FetchReturn("getQueues")
RulesReturn == FetchReturn("getRules")

Init ==
  /\ build \in { 1, 2 }
  /\ pc = "start"
  /\ accountId = << >>
  /\ apps = << >>
  /\ answers = "unset"
  /\ i = 0
  /\ terraform = << >>
  /\ dirExists \in BOOLEAN
  /\ files = << >>
  /\ written = << >>
  /\ inflight = {}
  /\ calls = << >>
  /\ log = << >>
  /\ got = << >>
  /\ arg = << >>
  /\ res = << >>

Next ==
  \/ Start
  \/ MeReturn
  \/ AppsReturn
  \/ PromptReturn
  \/ KeysReturn
  \/ NamespacesReturn
  \/ QueuesReturn
  \/ RulesReturn

Spec == Init /\ [][Next]_vars

-----------------------------------------------------------------------------
(* The functions on their own: the argument is drawn, the function applied *)

UnitAlphabet == { "a", "Z", "7", "_", " ", "-", "\"", "U+00C9", "U+0130" }

RECURSIVE StringsUpTo(_)
StringsUpTo(n) ==
  IF n = 0 THEN { << >> }
  ELSE StringsUpTo(n - 1)
         \cup { Append(s, c) : s \in { t \in StringsUpTo(n - 1) : Len(t) = n - 1 },
                               c \in UnitAlphabet }

InitUnit ==
  /\ build \in { 1, 2 }
  /\ pc = "unit"
  /\ accountId = << >>
  /\ apps = << >>
  /\ answers = "unset"
  /\ i = 0
  /\ terraform = << >>
  /\ dirExists = FALSE
  /\ files = << >>
  /\ written = << >>
  /\ inflight = {}
  /\ calls = << >>
  /\ log = << >>
  /\ got = << >>
  /\ arg \in StringsUpTo(MaxLen)
  /\ res = << >>

\* this.sanitizeName(arg)
UnitSanitize ==
  /\ pc = "unit"
  /\ pc' = "sanitized"
  /\ res' = sanitizeName(arg)
  /\ UNCHANGED << build, accountId, apps, answers, i, terraform, dirExists, files,
                  written, inflight, calls, log, got, arg >>

NextUnit == UnitSanitize

SpecUnit == InitUnit /\ [][NextUnit]_vars

-----------------------------------------------------------------------------
(* The emitters that render defaults, on their own: the rule field           *)
(* projectors and generateNamespaceTerraform of the first definition (the    *)
(* second has neither the projectors nor the batching lines).                *)

\* an object literal: the properties whose value is not undefined
Props(ps) == Obj(SelectSeq(ps, LAMBDA p : p[2].t # "undefined"))

\* the values the API can give the optional fields (Undefined: the field is absent)
EnvelopedChoices == { Undefined, Null, Bool(TRUE), Bool(FALSE) }
SigningKeyIdChoices == { Undefined, Null, Str(<< >>), Str(<< "k1" >>) }
MessageTtlChoices == { Undefined, Null, Num(0), Num(60) }
CredentialChoices == { Undefined, Str(<< "x" >>) }
BatchingEnabledChoices == { Undefined, Null, Bool(TRUE), Bool(FALSE) }
BatchingIntervalChoices == { Undefined, Null, Num(0), Num(20) }
BatchingPolicyChoices == { Null, Str(<< "simple" >>) }

\* target.authentication: the mode of the AWS variants and of pulsar, and the
\* three optional credentials
Authentication(accessKeyId, secretAccessKey, assumeRoleArn) ==
  Props(<< << "authenticationMode", Str(<< "credentials" >>) >>,
           << "mode", Str(<< "token" >>) >>,
           << "token", Str(<< "t" >>) >>,
           << "accessKeyId", accessKeyId >>,
           << "secretAccessKey", secretAccessKey >>,
           << "assumeRoleArn", assumeRoleArn >> >>)

AuthenticationChoices ==
  { Undefined }
    \cup { Authentication(a, s, r) :
             a \in CredentialChoices, s \in CredentialChoices, r \in CredentialChoices }

\* a target with the required fields of every variant and the given optional ones
Target(enveloped, signingKeyId, messageTtl, authentication) ==
  Props(<< << "url", Str(<< "https://example.com" >>) >>,
           << "format", Str(<< "json" >>) >>,
           << "headers", Headers >>,
           << "queueId", Str(<< "q1" >>) >>,
           << "routingKey", Str(<< "rk" >>) >>,
           << "mandatoryRoute", Bool(TRUE) >>,
           << "persistentMessages", Bool(FALSE) >>,
           << "region", Str(<< "us-east-1" >>) >>,
           << "streamName", Str(<< "s" >>) >>,
           << "partitionKey", Str(<< "pk" >>) >>,
           << "functionName", Str(<< "fn" >>) >>,
           << "awsAccountId", Str(<< "123" >>) >>,
           << "queueName", Str(<< "q" >>) >>,
           << "azureAppId", Str(<< "az" >>) >>,
           << "projectId", Str(<< "p" >>) >>,
           << "brokers", Arr(<< Str(<< "b:9092" >>) >>) >>,
           << "topic", Str(<< "t" >>) >>,
           << "serviceUrl", Str(<< "pulsar://h" >>) >>,
           << "tlsTrustCerts", Arr(<< >>) >>,
           << "auth", Obj(<< << "sasl", Obj(<< << "mechanism", Str(<< "plain" >>) >>,
                                               << "username", Str(<< "u" >>) >>,
                                               << "password", Str(<< "p" >>) >> >>) >> >>) >>,
           << "enveloped", enveloped >>,
           << "signingKeyId", signingKeyId >>,
           << "messageTtl", messageTtl >>,
           << "authentication", authentication >> >>)

Targets ==
  { Target(e, k, m, a) : e \in EnvelopedChoices, k \in SigningKeyIdChoices,
                         m \in MessageTtlChoices, a \in AuthenticationChoices }

Namespaces ==
  { [NamespacePool[1] EXCEPT !.batchingEnabled = e, !.batchingInterval = n,
                             !.batchingPolicy = p] :
      e \in BatchingEnabledChoices, n \in BatchingIntervalChoices,
      p \in BatchingPolicyChoices }

InitEmit ==
  /\ build = 1
  /\ pc = "emit"
  /\ accountId = << >>
  /\ apps = << >>
  /\ answers = "unset"
  /\ i = 0
  /\ terraform = << >>
  /\ dirExists = FALSE
  /\ files = << >>
  /\ written = << >>
  /\ inflight = {}
  /\ calls = << >>
  /\ log = << >>
  /\ got = << >>
  /\ \/ \E T \in KnownRuleTypes, t \in Targets :
          arg = [kind |-> "rule", ruleType |-> T, target |-> t,
                 namespace |-> NamespacePool[1]]
     \/ \E n \in Namespaces :
          arg = [kind |-> "namespace", ruleType |-> RT_http,
                 target |-> Target(Undefined, Undefined, Undefined, Undefined),
                 namespace |-> n]
  /\ res = Undefined

\* the switch of generateRuleTerraform calls the projector of arg.ruleType
UnitProject ==
  /\ pc = "emit"
  /\ arg.kind = "rule"
  /\ pc' = "projected"
  /\ res' = ruleSpecificFields(arg)
  /\ UNCHANGED << build, accountId, apps, answers, i, terraform, dirExists, files,
                  written, inflight, calls, log, got, arg >>

\* this.generateNamespaceTerraform(arg.namespace, "My App")
UnitNamespace ==
  /\ pc = "emit"
  /\ arg.kind = "namespace"
  /\ pc' = "emitted"
  /\ res' = Fields(generateNamespaceTerraform(arg.namespace, S_MyApp)[1].fields)
  /\ UNCHANGED << build, accountId, apps, answers, i, terraform, dirExists, files,
                  written, inflight, calls, log, got, arg >>

NextEmit == UnitProject \/ UnitNamespace

SpecEmit == InitEmit /\ [][NextEmit]_vars

-----------------------------------------------------------------------------
(* Properties *)

IsRuleBlock(b) == b.type[1] \in { "ably_rule", "ably_rule_" }

IsPrefix(a, b) == Len(a) <= Len(b) /\ SubSeq(b, 1, Len(a)) = a

WrittenApps == { written[k].app : k \in DOMAIN written }
Started(j) == \E k \in DOMAIN calls : calls[k].op \in FetchOps /\ calls[k].app = j
InProgress(j) == \E c \in inflight : c.app = j
\* the aggregation or the write of application j failed
Failed(j) == Started(j) /\ j \notin WrittenApps /\ ~InProgress(j)

\* what the fetch op of application j returned (nothing before it returned)
Got(j, op) == IF op \in DOMAIN got[j] THEN got[j][op] ELSE << >>

\* the text one item of one kind adds
BlockOf(op, x, appName) ==
  CASE op = "getKeys" ->
         IF build = 1 THEN generateKeyTerraform(x, appName)
         ELSE generateKeyTerraform_2(x, appName)
    [] op = "getNamespaces" ->
         IF build = 1 THEN generateNamespaceTerraform(x, appName)
         ELSE generateNamespaceTerraform_2(x, appName)
    [] op = "getQueues" -> generateQueueTerraform(x, appName)
    [] op = "getRules" ->
         IF build = 1 THEN generateRuleTerraform(x, appName).out
         ELSE generateRuleTerraform_2(x, appName).out

RECURSIVE BlocksOf(_, _, _)
BlocksOf(op, items, appName) ==
  IF items = << >> THEN << >>
  ELSE BlockOf(op, Head(items), appName) \o BlocksOf(op, Tail(items), appName)

\* application block, key blocks, namespace blocks, queue blocks, rule blocks
Aggregation(j) ==
  generateAppTerraform(apps[j])
    \o BlocksOf("getKeys", Got(j, "getKeys"), apps[j].name)
    \o BlocksOf("getNamespaces", Got(j, "getNamespaces"), apps[j].name)
    \o BlocksOf("getQueues", Got(j, "getQueues"), apps[j].name)
    \o BlocksOf("getRules", Got(j, "getRules"), apps[j].name)

\* C1 as stated: when the aggregation or the write of one application fails,
\* the run goes on with the other applications, and each of them whose own
\* fetches and write succeed has its file written.
C1_ContinuesAfterFailure ==
  pc = "done" =>
    \A j \in DOMAIN apps :
      Failed(j) =>
        \A m \in DOMAIN apps \ { j } : Started(m) /\ (~Failed(m) => m \in WrittenApps)

\* C1 amended: when the aggregation or the write of one application fails,
\* the failure is logged and the run ends there: no fetch and no write is made
\* for any later application; the applications before it have been written.
C1_FailureEndsRun ==
  \A j \in DOMAIN apps :
    Failed(j) =>
      /\ pc = "done"
      /\ \E k \in DOMAIN log : log[k].level = "error" /\ log[k].msg = "An error occurred"
      /\ \A m \in DOMAIN apps : m > j => ~\E k \in DOMAIN calls : calls[k].app = m
      /\ \A m \in DOMAIN apps : m < j => m \in WrittenApps

\* a failure at an application that is not the last of the list
C1_Witness ==
  /\ pc = "done"
  /\ \E j \in DOMAIN apps : Failed(j) /\ j < Len(apps)

C2_State ==
  /\ pc \in FetchOps => terraform = Aggregation(i)
  /\ \A k \in DOMAIN written :
       written[k].content = Aggregation(written[k].app)

C2_Step ==
  /\ (pc \in FetchOps /\ pc' \in FetchOps /\ i' = i) => IsPrefix(terraform, terraform')
  /\ Len(written') > Len(written) => IsPrefix(terraform, written'[Len(written')].content)

\* C2: the text of an application is the application block, then the key
\* blocks in fetched order, the namespace blocks, the queue blocks, the rule
\* blocks; every step leaves the text it found as a prefix of the new text.
C2_ConcatenationInOrder == [](C2_State) /\ [][C2_Step]_vars

\* the file of the second application, of three blocks: application, key, rule
C2_Witness ==
  \E k \in DOMAIN written :
    /\ written[k].app = 2
    /\ Len(written[k].content) = 3
    /\ written[k].content[1].type = << "ably_app" >>
    /\ written[k].content[2].type = << "ably_api_key" >>
    /\ IsRuleBlock(written[k].content[3])

\* the calls made for the applications, in the order they started
AppCalls == SelectSeq(calls, LAMBDA c : c.app > 0)
Turn == << "getKeys", "getNamespaces", "getQueues", "getRules", "writeFile" >>
\* call k is the ((k - 1) mod 5 + 1)-th of the turn of application (k - 1) div 5 + 1
InTurn(cs) ==
  \A k \in DOMAIN cs :
    cs[k] = Call(Turn[((k - 1) % Len(Turn)) + 1], ((k - 1) \div Len(Turn)) + 1)

\* C3: the applications are processed in listing order without overlap: the
\* calls are keys, namespaces, queues, rules, write for the first application,
\* then the same for the second, and so on; no call starts while another is
\* outstanding, and no fetch for an application starts before the write of
\* the one before it completed.
C3_StrictlySequential ==
  /\ Cardinality(inflight) <= 1
  /\ \A c \in inflight : calls # << >> /\ c = calls[Len(calls)]
  /\ InTurn(AppCalls)
  /\ \A j \in DOMAIN apps : (Started(j) /\ j > 1) => (j - 1) \in WrittenApps

\* the fetch of the rules of the second application is outstanding
C3_Witness ==
  /\ inflight = { Call("getRules", 2) }
  /\ written # << >>

ChildOps == FetchOps \cup { "mkdir", "writeFile" }
ChildCalls == { k \in DOMAIN calls : calls[k].op \in ChildOps }
\* before call k the list was fetched and then the prompt was shown
Confirmed(k) ==
  \E a \in 1..k, p \in 1..k :
    a < p /\ p < k /\ calls[a].op = "getApps" /\ calls[p].op = "prompt"
\* the child calls are made after the prompt answered true
AfterConfirmation(cc) ==
  cc # {} =>
    /\ answers = "yes"
    /\ apps # << >>
    /\ Confirmed(CHOOSE k \in cc : \A m \in cc : k <= m)
    /\ inflight \cap { Call("getApps", 0), Call("prompt", 0) } = {}
NoChildCalls(cc) == cc = {} /\ DOMAIN files = {} /\ written = << >>

\* C4: no child fetch, no mkdir and no write before the list was fetched and
\* the prompt answered true; if it answers false, or the list is empty (and
\* then the prompt is not shown), the run ends with none of them.
C4_NothingBeforeConfirmation ==
  /\ AfterConfirmation(ChildCalls)
  /\ (DOMAIN files # {} \/ written # << >>) => answers = "yes"
  /\ (answers = "no" \/ apps = << >>) =>
       NoChildCalls(ChildCalls)
  /\ apps = << >> => ~\E k \in DOMAIN calls : calls[k].op = "prompt"
  /\ answers = "no" => pc = "done"

\* the prompt answered true and a file was written
C4_Witness ==
  /\ answers = "yes"
  /\ \E k \in DOMAIN calls : calls[k].op = "writeFile"
  /\ written # << >>

\* C5 as stated: a rule of an unknown type puts no block in the output of its
\* application and a diagnostic in the log; its siblings of known type have
\* their blocks.
C5_UnknownRuleSkipped ==
  \A k \in DOMAIN written :
    LET j == written[k].app
        content == written[k].content
        rules == got[j]["getRules"]
        label(r) == Label(sanitizeName(apps[j].name), sanitizeName(r.id))
        has(r) == \E p \in DOMAIN content : IsRuleBlock(content[p]) /\ content[p].label = label(r)
    IN \A n \in DOMAIN rules :
         IF rules[n].ruleType \in KnownRuleTypes THEN has(rules[n])
         ELSE /\ ~has(rules[n])
              /\ \E m \in DOMAIN log : log[m] = Warn("Unsupported rule type", rules[n].ruleType)

\* the raw name an identifier is made of
RawName(op, x) ==
  CASE op = "getKeys" -> x.name
    [] op = "getNamespaces" -> x.id
    [] op = "getQueues" -> x.name
    [] op = "getRules" -> x.id

RawNamesDistinct(j) ==
  \A op \in FetchOps :
    \A p, q \in DOMAIN got[j][op] :
      p # q => RawName(op, got[j][op][p]) # RawName(op, got[j][op][q])

\* C6 as stated: resources of one application with pairwise distinct raw
\* names get pairwise distinct identifiers within their resource type.
C6_DistinctRawNamesDistinctIds ==
  \A k \in DOMAIN written :
    RawNamesDistinct(written[k].app) =>
      \A p, q \in DOMAIN written[k].content :
        (p # q /\ written[k].content[p].type = written[k].content[q].type)
          => written[k].content[p].label # written[k].content[q].label

\* the resource types and identifiers of the blocks of one kind in a text
IdsIn(content, op) ==
  { << content[p].type, content[p].label >> :
      p \in { n \in DOMAIN content :
                CASE op = "getKeys" -> content[n].type = << "ably_api_key" >>
                  [] op = "getNamespaces" -> content[n].type = << "ably_namespace" >>
                  [] op = "getQueues" -> content[n].type = << "ably_queue" >>
                  [] op = "getRules" -> IsRuleBlock(content[n]) } }

\* the resource types and sanitized names of the items of one kind that give a block
NamedType(op, x, block) ==
  IF block = << >> THEN {} ELSE { << block[1].type, sanitizeName(RawName(op, x)) >> }
SanitizedNamesOf(j, op) ==
  UNION { NamedType(op, got[j][op][n], BlockOf(op, got[j][op][n], apps[j].name)) :
            n \in DOMAIN got[j][op] }
\* as many identifiers as names, each of them sanitize(appName) "_" sanitize(rawName)
IdsOfNames(ids, names, appId) ==
  /\ Cardinality(ids) = Cardinality(names)
  /\ ids = { << n[1], appId \o << "_" >> \o n[2] >> : n \in names }

\* C6 amended: resources of one application whose sanitized raw names are
\* pairwise distinct get pairwise distinct identifiers within their resource
\* type: the blocks of a type carry as many different identifiers as their
\* resources have different sanitized names, every identifier being
\* sanitize(appName) "_" sanitize(rawName).
C6_DistinctSanitizedNamesDistinctIds ==
  \A k \in DOMAIN written :
    \A op \in FetchOps :
      IdsOfNames(IdsIn(written[k].content, op),
                 SanitizedNamesOf(written[k].app, op),
                 sanitizeName(apps[written[k].app].name))

\* a file with the blocks of two namespaces, under two identifiers
C6_Witness ==
  \E k \in DOMAIN written :
    /\ Len(got[written[k].app]["getNamespaces"]) = 2
    /\ Cardinality(IdsIn(written[k].content, "getNamespaces")) = 2

\* C7 as stated: after a run over N applications in which every fetch and
\* write succeeds the output directory holds N files, and no write of the run
\* has overwritten the file of an earlier application.
C7_OneFilePerApp ==
  (pc = "done" /\ Len(apps) > 0 /\ Len(written) = Len(apps)) =>
    /\ Cardinality(DOMAIN files) = Len(apps)
    /\ \A k \in DOMAIN written : files[written[k].fileName] = written[k].content

\* a quote inside a quoted literal has a backslash before it
WellFormedLiteral(text) ==
  \A k \in DOMAIN text : text[k] = "\"" => (k > 1 /\ text[k - 1] = "\\")

QuotedFieldsWellFormed(content) ==
  \A p \in DOMAIN content :
    \A f \in DOMAIN content[p].fields :
      content[p].fields[f].kind = "quoted" => WellFormedLiteral(content[p].fields[f].text)

\* C8 as stated: every string interpolated into a double-quoted literal has
\* its double quotes escaped, so every quoted field of the text is one
\* well-formed literal.
C8_QuotedFieldsEscaped ==
  /\ pc \in FetchOps => QuotedFieldsWellFormed(terraform)
  /\ \A k \in DOMAIN written : QuotedFieldsWellFormed(written[k].content)

\* C9 as stated: the result of sanitizeName holds only characters of
\* [a-z0-9_] and has one character per character of the input.
C9_SafeAndSameLength ==
  pc = "sanitized" => (Range(res) \subseteq SafeChars /\ Len(res) = Len(arg))

\* what sanitizeName makes of a code unit that lowercases to one code unit
SanitizedUnit(c) ==
  IF c \in SafeChars THEN c
  ELSE IF c \in UpperChars THEN LowerOf[c]
  ELSE "_"

\* C9 amended: the result of sanitizeName holds only characters of [a-z0-9_];
\* it has one character per code unit of the input, that code unit lowercased
\* or replaced by "_", unless the input holds U+0130, which lowercases to two
\* code units and so gives two characters ("i_"): the length is then the
\* input's plus the number of U+0130 in it.
C9_SafeAndLengthOfLowercased ==
  pc = "sanitized" =>
    /\ Range(res) \subseteq SafeChars
    /\ Len(res) = Len(arg) + Cardinality({ k \in DOMAIN arg : arg[k] = "U+0130" })
    /\ "U+0130" \notin Range(arg) =>
         res = [ k \in DOMAIN arg |-> SanitizedUnit(arg[k]) ]

\* an uppercase letter, U+0130 and a quote
C9_Witness ==
  /\ pc = "sanitized"
  /\ arg = << "Z", "U+0130", "\"" >>
  /\ res = << "z", "i", "_", "_" >>

\* C10: in every file the key, namespace, queue and rule blocks refer to
\* ably_app.<X>.id, X being the identifier of the application block at the
\* head of the file and the base name of the file, sanitize(app.name);
\* "My App" with key "Prod Key" gives my_app.tf with key block
\* my_app_prod_key referring to my_app.
C10_ReferencesResolve ==
  \A k \in DOMAIN written :
    LET content == written[k].content
        X == content[1].label
    IN /\ content[1].type = << "ably_app" >>
       /\ X = replaceUnsafe(toLowerCase(apps[written[k].app].name))
       /\ written[k].fileName = X \o << ".tf" >>
       /\ \A p \in 2..Len(content) :
            /\ content[p].type # << "ably_app" >>
            /\ content[p].fields[1] = Bare("app_id", << "ably_app." >> \o X \o << ".id" >>)
       /\ (apps[written[k].app].name = S_MyApp /\ Got(written[k].app, "getKeys") = << KeyPool[1] >>)
            => /\ written[k].fileName = << "m", "y", "_", "a", "p", "p", ".tf" >>
               /\ content[2].label
                    = << "m", "y", "_", "a", "p", "p", "_", "p", "r", "o", "d", "_", "k", "e", "y" >>
               /\ content[2].fields[1].text
                    = << "ably_app.", "m", "y", "_", "a", "p", "p", ".id" >>

\* the file of "My App" with its key "Prod Key" and a rule
C10_Witness ==
  \E k \in DOMAIN written :
    /\ apps[written[k].app].name = S_MyApp
    /\ Got(written[k].app, "getKeys") = << KeyPool[1] >>
    /\ Len(written[k].content) = 3
    /\ IsRuleBlock(written[k].content[3])

\* the names and kinds of the lines of a projection, in order
Shape(fs) == [ k \in DOMAIN fs |-> << fs[k].name, fs[k].kind >> ]

\* the line called name
Line(fs, name) == fs[CHOOSE k \in DOMAIN fs : fs[k].name = name]
HasLine(fs, name) == \E k \in DOMAIN fs : fs[k].name = name

AwsRuleTypes == { RT_aws_kinesis, RT_aws_lambda, RT_aws_sqs }

\* the optional fields with a documented default: where the field is read
\* (the target or its authentication object), the variants that render it,
\* and the line an absent field gives
Optionals ==
  { [key |-> "enveloped", of |-> "target", types |-> KnownRuleTypes \ { RT_zapier },
     absent |-> Bare("enveloped", << "false" >>)],
    [key |-> "signingKeyId", of |-> "target",
     types |-> { RT_http, RT_azure_function, RT_google_function, RT_zapier },
     absent |-> Quoted("signing_key_id", << >>)],
    [key |-> "messageTtl", of |-> "target", types |-> { RT_amqp_external },
     absent |-> Bare("message_ttl", << "null" >>)],
    [key |-> "accessKeyId", of |-> "authentication", types |-> AwsRuleTypes,
     absent |-> Quoted("access_key_id", << >>)],
    [key |-> "secretAccessKey", of |-> "authentication", types |-> AwsRuleTypes,
     absent |-> Quoted("secret_access_key", << >>)],
    [key |-> "assumeRoleArn", of |-> "authentication", types |-> AwsRuleTypes,
     absent |-> Quoted("assume_role_arn", << >>)] }

\* the value the input gives an optional field
ValueOf(o, target) ==
  IF o.of = "target" THEN Get(target, o.key)
  ELSE Get(Get(target, "authentication"), o.key)

IsAbsent(x) == x.t \in { "undefined", "null" }

\* the target carries the objects its projector reads through
ReadsAuthentication(T) == T \in AwsRuleTypes \cup { RT_pulsar }
Projectable(T, target) ==
  ReadsAuthentication(T) => ~IsAbsent(Get(target, "authentication"))

\* the projection of a target of the same variant with every optional field present
FullProjection(T) ==
  ruleSpecificFields(
    [ruleType |-> T,
     target |-> Target(Bool(TRUE), Str(<< "k1" >>), Num(60),
                       Authentication(Str(<< "x" >>), Str(<< "x" >>), Str(<< "x" >>)))])

\* C11: for each of the 11 known rule types, the projection of a target
\* (carrying the authentication object where the projector reads it) has the
\* same lines, in the same order and of the same kinds, whichever optional
\* fields are absent, and an absent or null optional field gives its line
\* with the default: enveloped false, signingKeyId "", messageTtl null, and in
\* the authentication sub-block of the three AWS variants accessKeyId,
\* secretAccessKey and assumeRoleArn "".
C11_AbsentRendersDefault ==
  (pc = "projected" /\ Projectable(arg.ruleType, arg.target)) =>
    /\ res.t = "fields"
    /\ Shape(res.v) = Shape(FullProjection(arg.ruleType).v)
    /\ \A o \in Optionals :
         arg.ruleType \in o.types =>
           /\ HasLine(res.v, o.absent.name)
           /\ IsAbsent(ValueOf(o, arg.target)) => Line(res.v, o.absent.name) = o.absent

\* an aws/sqs target without enveloped and without the three credentials
C11_Witness ==
  /\ pc = "projected"
  /\ arg.ruleType = RT_aws_sqs
  /\ arg.target = Target(Undefined, Undefined, Undefined,
                         Authentication(Undefined, Undefined, Undefined))
  /\ Line(res.v, "enveloped").text = << "false" >>
  /\ Line(res.v, "access_key_id").text = << >>
  /\ HasLine(res.v, "authentication")

\* the fetches of application j that returned a list
Returned(j) == DOMAIN got[j]
FileNameOf(j) == sanitizeName(apps[j].name) \o TF
WriteCalls(j) == { k \in DOMAIN calls : calls[k] = Call("writeFile", j) }
\* a fetch of application j failed
FetchFailed(j) == Started(j) /\ ~InProgress(j) /\ Returned(j) # FetchOps

\* the write is called with all four lists fetched, and never after a failed fetch
WrittenAfterFetches ==
  \A j \in DOMAIN apps :
    /\ WriteCalls(j) # {} => Returned(j) = FetchOps
    /\ FetchFailed(j) => (WriteCalls(j) = {} /\ j \notin WrittenApps)

\* the file named f holds the complete aggregation of an application written under that name
HoldsAggregation(f) ==
  \E k \in DOMAIN written :
    /\ written[k].fileName = f
    /\ Returned(written[k].app) = FetchOps
    /\ files[f] = written[k].content
    /\ files[f] = Aggregation(written[k].app)

\* the file named f holds what a write that succeeded put under that name
HoldsWritten(f) ==
  \E k \in DOMAIN written : written[k].fileName = f /\ files[f] = written[k].content

\* the file named f was left by the write of the application the run ended
\* at, which failed: it holds the first blocks of the aggregation, not all
LeftByFailedWrite(f) ==
  /\ pc = "done"
  /\ i \in DOMAIN apps
  /\ WriteCalls(i) # {}
  /\ i \notin WrittenApps
  /\ f = FileNameOf(i)
  /\ Len(files[f]) < Len(Aggregation(i))
  /\ IsPrefix(files[f], Aggregation(i))

\* C12 as stated: a file is written only after the four fetches of its
\* application returned, no file written for an application a fetch of which
\* failed, and every file of the output directory holds the complete
\* aggregation of its application, never a part of it.
C12_CompleteFilesOnly ==
  /\ WrittenAfterFetches
  /\ \A f \in DOMAIN files : HoldsAggregation(f)

\* C12 amended: the write for an application is called only after its four
\* fetches returned, with the complete aggregation, and not at all when one
\* of its fetches failed; a write that succeeds leaves the complete
\* aggregation in the file.  A write that fails after opening the file leaves
\* it empty or holding only the first blocks of the aggregation (and so the
\* file of an earlier application of the same file name is lost).
C12_State ==
  /\ WrittenAfterFetches
  /\ \A k \in DOMAIN written :
       /\ Returned(written[k].app) = FetchOps
       /\ written[k].content = Aggregation(written[k].app)
  /\ \A f \in DOMAIN files : HoldsWritten(f) \/ LeftByFailedWrite(f)

\* the output directory changes only in the step in which the last fetch of
\* the application at hand returns, its three other lists fetched before
C12_Step ==
  (files' # files \/ written' # written) =>
    /\ pc = FetchOrder[Len(FetchOrder)]
    /\ DOMAIN got[i] = FetchOps \ { pc }
    /\ DOMAIN got'[i] = FetchOps

C12_CompleteUnlessWriteFails == [](C12_State) /\ [][C12_Step]_vars

\* the first application written in full, the write of the second failed and
\* left a file holding the first block of two
C12_Witness ==
  /\ pc = "done"
  /\ Len(apps) = 2
  /\ i = 2
  /\ 1 \in WrittenApps
  /\ FileNameOf(1) # FileNameOf(2)
  /\ HoldsAggregation(FileNameOf(1))
  /\ FileNameOf(2) \in DOMAIN files
  /\ Len(files[FileNameOf(2)]) = 1
  /\ Len(Aggregation(2)) = 2
  /\ LeftByFailedWrite(FileNameOf(2))

\* the line of an optional field carries the field's own value
RendersOwnValue(fs, name, x) == Line(fs, name).text = jsToString(x)

\* C13 as stated: an optional field present in the input (neither absent nor
\* null) is rendered with its own value: target.messageTtl (0 included),
\* target.enveloped and target.signingKeyId by the projectors that have the
\* line, namespace.batchingInterval (0 included) and namespace.batchingEnabled
\* by generateNamespaceTerraform.
C13_PresentRendersOwnValue ==
  /\ (pc = "projected" /\ res.t = "fields") =>
       \A o \in { p \in Optionals : p.of = "target" /\ arg.ruleType \in p.types } :
         ~IsAbsent(ValueOf(o, arg.target)) =>
           RendersOwnValue(res.v, o.absent.name, ValueOf(o, arg.target))
  /\ pc = "emitted" =>
       /\ ~IsAbsent(arg.namespace.batchingInterval) =>
            RendersOwnValue(res.v, "batching_interval", arg.namespace.batchingInterval)
       /\ ~IsAbsent(arg.namespace.batchingEnabled) =>
            RendersOwnValue(res.v, "batching_enabled", arg.namespace.batchingEnabled)

=============================================================================
